---- MODULE Spec2Model ----
(***************************************************************************)
(* Model of rdk/template/runtime/nodejs4.3/rule_code.js: the AWS Config    *)
(* custom-rule handler (exports.lambda_handler, the second assignment, at  *)
(* line 132, which is the one in force) and the helpers it calls.          *)
(*                                                                         *)
(* One behaviour is one invocation.  JavaScript values are represented as  *)
(* follows: an absent string-valued property is the string "undefined", an *)
(* absent object-valued property is the record Undefined, the values of    *)
(* event.eventLeftScope are named by their literals ("false", "true",      *)
(* "undefined" and "'false'" for the string).  A thrown exception ends the *)
(* running call stack; it is recorded in thrown.                           *)
(***************************************************************************)
EXTENDS Integers, Sequences, FiniteSets

\* Longest list verdict the Evaluator delivers in the model.
MaxList == 2
\* Most per-record failures in a putEvaluations response.
MaxFailed == 1

Undefined == [kind |-> "undefined"]
NoError == [kind |-> "none"]

\* Truthiness of a string-valued and of an object-valued JavaScript value.
DefinedString(v) == v # "undefined" /\ v # ""
DefinedObject(v) == v # Undefined

----------------------------------------------------------------------------
(* Values of the inbound payload *)

ChangeNotification == "ConfigurationItemChangeNotification"
OversizedNotification == "OversizedConfigurationItemChangeNotification"
ScheduledNotification == "ScheduledNotification"

Statuses == {"OK", "ResourceDiscovered", "ResourceDeleted", "ResourceNotDiscovered"}
ScopeValues == {"false", "true", "undefined", "'false'"}
ResourceTypes == {"AWS::EC2::Instance", "AWS::S3::Bucket"}
InstanceTypes == {"t2.micro", "m4.large"}
ResultTokens == {"token-A", "token-B"}
Labels == {"COMPLIANT", "NON_COMPLIANT", "NOT_APPLICABLE"}

\* A timestamp is a JSON string (in a notification) or a Date (from the SDK).
StringTime == [kind |-> "string", t |-> 1]
DateTime == [kind |-> "date", t |-> 1]

\* JSON.stringify followed by JSON.parse: a Date becomes its ISO string.
JsonTime(v) == IF v = DateTime THEN StringTime ELSE v

JsonItem(ci) ==
    IF ci = Undefined THEN Undefined
    ELSE [f \in DOMAIN ci |->
            IF f = "configurationItemCaptureTime" THEN JsonTime(ci[f]) ELSE ci[f]]

\* JSON.stringify of an invokingEvent / a value; the text is kept as the value
\* that parsing it gives back.
Stringify(v) == [json |-> v]
Parse(s) == s.json

StringifyInvokingEvent(ie) ==
    Stringify([ie EXCEPT !.configurationItem = JsonItem(@)])

\* The configuration item embedded in a standard change notification.
EmbeddedItem(rt, st, it) ==
    [resourceType |-> rt, resourceId |-> "i-1",
     configurationItemStatus |-> st,
     configurationItemCaptureTime |-> StringTime,
     configuration |-> [instanceType |-> it],
     awsAccountId |-> "123", ARN |-> "arn:i-1",
     configurationStateMd5Hash |-> "md5", configurationItemVersion |-> "1.2",
     relationships |-> <<[name |-> "in vpc"]>>]

\* A configuration item as getResourceConfigHistory returns it.
ApiItemNoRel(rt, st, it) ==
    [resourceType |-> rt, resourceId |-> "i-1",
     configurationItemStatus |-> st,
     configurationItemCaptureTime |-> DateTime,
     configuration |-> Stringify([instanceType |-> it]),
     accountId |-> "123", arn |-> "arn:i-1",
     configurationItemMD5Hash |-> "md5", version |-> "1.2"]

ApiItemRel(rt, st, it) ==
    [f \in DOMAIN ApiItemNoRel(rt, st, it) \cup {"relationships"} |->
        IF f = "relationships" THEN <<[relationshipName |-> "in vpc"]>>
        ELSE ApiItemNoRel(rt, st, it)[f]]

ApiItems ==
    {ApiItemNoRel(rt, st, it) : rt \in ResourceTypes, st \in Statuses, it \in InstanceTypes}
    \cup {ApiItemRel(rt, st, it) : rt \in ResourceTypes, st \in Statuses, it \in InstanceTypes}

Summary ==
    [resourceType |-> "AWS::EC2::Instance", resourceId |-> "i-1",
     configurationItemCaptureTime |-> StringTime]

InvokingEvents ==
    {[messageType |-> ChangeNotification, configurationItemSummary |-> Undefined,
      configurationItem |-> EmbeddedItem(rt, st, it)] :
        rt \in ResourceTypes, st \in Statuses, it \in InstanceTypes}
    \cup {[messageType |-> ChangeNotification, configurationItemSummary |-> Undefined,
           configurationItem |-> Undefined]}
    \cup {[messageType |-> OversizedNotification, configurationItemSummary |-> s,
           configurationItem |-> Undefined] : s \in {Summary, Undefined}}
    \cup {[messageType |-> mt, configurationItemSummary |-> Undefined,
           configurationItem |-> Undefined] : mt \in {ScheduledNotification, "undefined"}}

Events ==
    {[invokingEvent |-> Stringify(ie),
      ruleParameters |-> Stringify([desiredInstanceType |-> "t2.micro"]),
      eventLeftScope |-> sc, resultToken |-> tok] :
        ie \in InvokingEvents, sc \in ScopeValues, tok \in ResultTokens}

----------------------------------------------------------------------------
(* Verdicts of the Evaluator *)

LabelVerdict(l) == [shape |-> "string", value |-> l]
ListVerdict(items) == [shape |-> "array", items |-> items]
OtherVerdict == [shape |-> "other"]
NoVerdict == [shape |-> "none"]

Candidate(rt, id, label, ts) ==
    [ComplianceResourceType |-> rt, ComplianceResourceId |-> id,
     ComplianceType |-> label, OrderingTimestamp |-> ts]

Candidates ==
    {Candidate("AWS::EC2::Volume", "vol-1", "COMPLIANT", StringTime),
     Candidate("AWS::EC2::Volume", "vol-2", "NON_COMPLIANT", StringTime),
     Candidate("AWS::EC2::Volume", "vol-3", "undefined", StringTime),
     Candidate("undefined", "vol-4", "COMPLIANT", Undefined)}

RECURSIVE SeqsUpTo(_, _)
SeqsUpTo(S, n) ==
    IF n = 0 THEN {<<>>}
    ELSE LET shorter == SeqsUpTo(S, n - 1)
         IN shorter \cup {Append(q, x) : q \in {p \in shorter : Len(p) = n - 1}, x \in S}

Verdicts ==
    {LabelVerdict(l) : l \in Labels}
    \cup {ListVerdict(items) : items \in SeqsUpTo(Candidates, MaxList)}
    \cup {OtherVerdict}

Fields == <<"ComplianceResourceType", "ComplianceResourceId", "ComplianceType", "OrderingTimestamp">>

Present(c, f) ==
    IF f = "OrderingTimestamp" THEN DefinedObject(c[f]) ELSE DefinedString(c[f])

WellFormed(c) == \A j \in 1..Len(Fields) : Present(c, Fields[j])

----------------------------------------------------------------------------
(* Helpers of rule_code.js *)

\* evaluateCompliance, lines 33-40.
evaluateCompliance(configurationItem, ruleParameters) ==
    IF configurationItem.resourceType # "AWS::EC2::Instance" THEN "NOT_APPLICABLE"
    ELSE IF ruleParameters.desiredInstanceType = configurationItem.configuration.instanceType
         THEN "COMPLIANT"
    ELSE "NON_COMPLIANT"

\* isOverSizedChangeNotification and isScheduledNotification, lines 63-72,
\* past their checkDefined (the callers model the throw).
isOverSizedChangeNotification(messageType) == messageType = OversizedNotification

\* Variant: the comparison names the wrong message type.
isScheduledNotificationWrongName(messageType) == messageType = "ScheduledNotifications"

isScheduledNotification(messageType) == messageType = ScheduledNotification

\* Variant: ARN is copied from a property the API item does not have.
convertApiConfigurationArnMisread(apiConfiguration) ==
    LET added == {"awsAccountId", "ARN", "configurationStateMd5Hash",
                  "configurationItemVersion"}
        rename(r) == [g \in DOMAIN r \cup {"name"} |->
                        IF g = "name" THEN r.relationshipName ELSE r[g]]
    IN [f \in DOMAIN apiConfiguration \cup added |->
          CASE f = "awsAccountId" -> apiConfiguration.accountId
            [] f = "ARN" -> "undefined"
            [] f = "configurationStateMd5Hash" -> apiConfiguration.configurationItemMD5Hash
            [] f = "configurationItemVersion" -> apiConfiguration.version
            [] f = "configuration" -> Parse(apiConfiguration.configuration)
            [] f = "relationships" ->
                 [i \in 1..Len(apiConfiguration.relationships) |->
                    rename(apiConfiguration.relationships[i])]
            [] OTHER -> apiConfiguration[f]]

\* convertApiConfiguration, lines 87-99: the API item keeps its own fields and
\* gains the names of the invocation model.
convertApiConfiguration(apiConfiguration) ==
    LET added == {"awsAccountId", "ARN", "configurationStateMd5Hash",
                  "configurationItemVersion"}
        rename(r) == [g \in DOMAIN r \cup {"name"} |->
                        IF g = "name" THEN r.relationshipName ELSE r[g]]
    IN [f \in DOMAIN apiConfiguration \cup added |->
          CASE f = "awsAccountId" -> apiConfiguration.accountId
            [] f = "ARN" -> apiConfiguration.arn
            [] f = "configurationStateMd5Hash" -> apiConfiguration.configurationItemMD5Hash
            [] f = "configurationItemVersion" -> apiConfiguration.version
            [] f = "configuration" -> Parse(apiConfiguration.configuration)
            [] f = "relationships" ->
                 [i \in 1..Len(apiConfiguration.relationships) |->
                    rename(apiConfiguration.relationships[i])]
            [] OTHER -> apiConfiguration[f]]

\* Variant: a falsy eventLeftScope (absent as well as false) is accepted.
isApplicableFalsyScope(configurationItem, ev) ==
    LET status == configurationItem.configurationItemStatus
        eventLeftScope == ev.eventLeftScope
    IN (status = "OK" \/ status = "ResourceDiscovered")
       /\ eventLeftScope \in {"false", "undefined"}

\* Variant: only the deleted statuses are excluded.
isApplicableNotDeleted(configurationItem, ev) ==
    LET status == configurationItem.configurationItemStatus
        eventLeftScope == ev.eventLeftScope
    IN status # "ResourceDeleted" /\ eventLeftScope = "false"

\* isApplicable, lines 125-127, past its two checkDefined.
isApplicable(configurationItem, ev) ==
    LET status == configurationItem.configurationItemStatus
        eventLeftScope == ev.eventLeftScope
    IN (status = "OK" \/ status = "ResourceDiscovered") /\ eventLeftScope = "false"

----------------------------------------------------------------------------
(* Outcomes handed to the caller's callback, and errors passed between
   callbacks *)

HistoryError == [kind |-> "error", name |-> "getResourceConfigHistory error", detail |-> Undefined]
UnsupportedError == [kind |-> "error", name |-> "RDK utility class does not yet support Scheduled Notifications.", detail |-> Undefined]
EvaluatorError == [kind |-> "error", name |-> "rule_handler error", detail |-> Undefined]
SubmissionError == [kind |-> "error", name |-> "putEvaluations error", detail |-> Undefined]
PartialFailure(data) == [kind |-> "error", name |-> "JSON.stringify(data)", detail |-> Stringify(data)]
Success(data) == [kind |-> "success", name |-> "data", detail |-> data]

NoRequest == [kind |-> "none"]

----------------------------------------------------------------------------
(* State *)

VARIABLES
    payload,       \* the inbound invocation payload, as the caller sent it
    event,         \* the event object the handler holds (it rewrites invokingEvent)
    pc,            \* "start", "lookup" (getResourceConfigHistory in flight),
                   \* "submit" (putEvaluations in flight), "done"
    callbacks,     \* the calls of the caller's callback, in order
    thrown,        \* the uncaught exception, or "none"
    trace,         \* the stages entered, in order
    evaluatorArgs, \* (configurationItem, ruleParameters) of each evaluateCompliance call
    pending,       \* the Evaluator has been called and has not yet called back
    compliance,    \* the handler's variable compliance (line 143)
    applicable,    \* what isApplicable returned at line 145: "true", "false", or "none"
    verdict,       \* computedCompliance as the Evaluator delivered it, or NoVerdict
    lookup,        \* what getResourceConfigHistory answered, or NoRequest
    snapshot,      \* the configurationItem handed to the handler's callback
    requests,      \* the requests handed to config.putEvaluations, in order
    response,      \* what config.putEvaluations answered, or NoRequest
    diagnostics    \* console.info lines of the list branch

vars == <<payload, event, pc, callbacks, thrown, trace, evaluatorArgs, pending,
          compliance, applicable, verdict, lookup, snapshot, requests, response,
          diagnostics>>

\* The mutable part of the state as one record, for the operators below.
Cur ==
    [event |-> event, pc |-> pc, callbacks |-> callbacks, thrown |-> thrown,
     trace |-> trace, evaluatorArgs |-> evaluatorArgs, pending |-> pending,
     compliance |-> compliance, applicable |-> applicable, verdict |-> verdict,
     snapshot |-> snapshot, requests |-> requests,
     diagnostics |-> diagnostics]

Apply(m) ==
    /\ event' = m.event
    /\ pc' = m.pc
    /\ callbacks' = m.callbacks
    /\ thrown' = m.thrown
    /\ trace' = m.trace
    /\ evaluatorArgs' = m.evaluatorArgs
    /\ pending' = m.pending
    /\ compliance' = m.compliance
    /\ applicable' = m.applicable
    /\ verdict' = m.verdict
    /\ snapshot' = m.snapshot
    /\ requests' = m.requests
    /\ diagnostics' = m.diagnostics

Cb(m, outcome) == [m EXCEPT !.callbacks = Append(@, outcome)]
Throw(m, e) == [m EXCEPT !.thrown = e, !.pc = "done"]
Enter(m, stage) == [m EXCEPT !.trace = Append(@, stage)]

----------------------------------------------------------------------------
(* The Evaluator.  rule_handler of lines 42-48 is the one in the file; the
   handler's callback of lines 148-153 also provides for an Evaluator that
   reports an error, and nothing keeps a replacement from delivering another
   verdict shape, from throwing, or from calling back later. *)

Behaviours ==
    {[mode |-> "builtin", verdict |-> OtherVerdict]}
    \cup {[mode |-> "sync", verdict |-> v] : v \in Verdicts}
    \cup {[mode |-> md, verdict |-> OtherVerdict] : md \in {"error", "throw", "async"}}

\* Variant: the resolved item is not written into the invoking event (line
\* 146 left out), so rule_handler reads what the notification embedded.
RuleHandlerNoRewrite(m, ie, ci, b) ==
    LET configItem == Parse(m.event.invokingEvent).configurationItem
        ruleParameters == Parse(m.event.ruleParameters)
        m1 == [Enter(m, "rule_handler") EXCEPT
                 !.evaluatorArgs = Append(@, [configurationItem |-> configItem,
                                              ruleParameters |-> ruleParameters])]
        deliver(v) == [m1 EXCEPT !.verdict = v, !.compliance = v]
    IN IF ~DefinedObject(configItem)
       THEN Throw(m1, "TypeError: Cannot read property 'resourceType' of undefined")
       ELSE CASE b.mode = "builtin" ->
                   deliver(LabelVerdict(evaluateCompliance(configItem, ruleParameters)))
              [] b.mode = "sync" -> deliver(b.verdict)
              [] b.mode = "error" ->
                   [Cb(m1, EvaluatorError) EXCEPT !.verdict = OtherVerdict,
                                                  !.compliance = OtherVerdict]
              [] b.mode = "throw" -> Throw(m1, "exception of the Evaluator")
              [] b.mode = "async" -> [m1 EXCEPT !.pending = TRUE]

\* Lines 146-153: the resolved item is written into the invoking event, the
\* event is re-serialized, and rule_handler parses it again (lines 44-46).
RuleHandler(m, ie, ci, b) ==
    LET ie2 == [ie EXCEPT !.configurationItem = ci]
        ev2 == [m.event EXCEPT !.invokingEvent = StringifyInvokingEvent(ie2)]
        configItem == Parse(ev2.invokingEvent).configurationItem
        ruleParameters == Parse(ev2.ruleParameters)
        m1 == [Enter(m, "rule_handler") EXCEPT
                 !.event = ev2,
                 !.evaluatorArgs = Append(@, [configurationItem |-> configItem,
                                              ruleParameters |-> ruleParameters])]
        deliver(v) == [m1 EXCEPT !.verdict = v, !.compliance = v]
    IN CASE b.mode = "builtin" ->
              deliver(LabelVerdict(evaluateCompliance(configItem, ruleParameters)))
         [] b.mode = "sync" -> deliver(b.verdict)
         [] b.mode = "error" ->
              [Cb(m1, EvaluatorError) EXCEPT !.verdict = OtherVerdict,
                                             !.compliance = OtherVerdict]
         [] b.mode = "throw" -> Throw(m1, "exception of the Evaluator")
         [] b.mode = "async" -> [m1 EXCEPT !.pending = TRUE]

\* The report record of lines 158-163 and 184-189.
Record(ci, label) ==
    Candidate(ci.resourceType, ci.resourceId, label, ci.configurationItemCaptureTime)

\* Variant: the branch completes and appends every candidate unchecked.
ArrayBranchUnchecked(items) ==
    [thrown |-> "none", Evaluations |-> items, diagnostics |-> <<>>]

\* Lines 165-181, the branch for a list verdict.  Its first statement assigns
\* the undeclared name fields under 'use strict' (line 21), the loop header
\* reads the undeclared name compliace, and Evaluations is never initialised
\* before .append: the branch leaves by an exception for every list.
ArrayBranch(items) ==
    [thrown |-> "ReferenceError: fields is not defined",
     Evaluations |-> <<>>, diagnostics |-> <<>>]

\* Variant: the result token is read from the parsed invoking event, which
\* has none.
PutTogetherTokenOfInvokingEvent(m, ci) ==
    LET c == m.compliance
        m1 == Enter(m, "normalize")
        call(mm, evals) ==
            [Enter(mm, "putEvaluations") EXCEPT
               !.requests = Append(@, [Evaluations |-> evals,
                                       ResultToken |-> "undefined"]),
               !.pc = "submit"]
    IN IF c.shape = "string" THEN call(m1, <<Record(ci, c.value)>>)
       ELSE IF c.shape = "array"
            THEN LET r == ArrayBranch(c.items)
                     m2 == [m1 EXCEPT !.diagnostics = r.diagnostics]
                 IN IF r.thrown # "none" THEN Throw(m2, r.thrown)
                    ELSE call(m2, r.Evaluations)
       ELSE call(m1, <<Record(ci, "NOT_APPLICABLE")>>)

\* Variant: the last branch reports compliance itself as the label.
PutTogetherOtherAsLabel(m, ci) ==
    LET c == m.compliance
        m1 == Enter(m, "normalize")
        call(mm, evals) ==
            [Enter(mm, "putEvaluations") EXCEPT
               !.requests = Append(@, [Evaluations |-> evals,
                                       ResultToken |-> mm.event.resultToken]),
               !.pc = "submit"]
    IN IF c.shape = "string" THEN call(m1, <<Record(ci, c.value)>>)
       ELSE IF c.shape = "array"
            THEN LET r == ArrayBranch(c.items)
                     m2 == [m1 EXCEPT !.diagnostics = r.diagnostics]
                 IN IF r.thrown # "none" THEN Throw(m2, r.thrown)
                    ELSE call(m2, r.Evaluations)
       ELSE call(m1, <<Record(ci, "undefined")>>)

\* Variant: the request is built from the initial NOT_APPLICABLE, whatever
\* compliance holds.
PutTogetherInitialLabel(m, ci) ==
    [Enter(Enter(m, "normalize"), "putEvaluations") EXCEPT
       !.requests = Append(@, [Evaluations |-> <<Record(ci, "NOT_APPLICABLE")>>,
                               ResultToken |-> m.event.resultToken]),
       !.pc = "submit"]

\* Lines 155-196: build the request and hand it to config.putEvaluations.
PutTogether(m, ci) ==
    LET c == m.compliance
        m1 == Enter(m, "normalize")
        call(mm, evals) ==
            [Enter(mm, "putEvaluations") EXCEPT
               !.requests = Append(@, [Evaluations |-> evals,
                                       ResultToken |-> mm.event.resultToken]),
               !.pc = "submit"]
    IN IF c.shape = "string" THEN call(m1, <<Record(ci, c.value)>>)
       ELSE IF c.shape = "array"
            THEN LET r == ArrayBranch(c.items)
                     m2 == [m1 EXCEPT !.diagnostics = r.diagnostics]
                 IN IF r.thrown # "none" THEN Throw(m2, r.thrown)
                    ELSE call(m2, r.Evaluations)
       ELSE call(m1, <<Record(ci, "NOT_APPLICABLE")>>)

\* Lines 137-196: the callback lambda_handler gives to getConfigurationItem.
\* Neither callback(err) nor the scheduled-notification callback returns.
HandlerCallback(m, ie, err, ci, b) ==
    LET m1 == IF err # NoError THEN Cb(m, err) ELSE m
        m2 == IF ~DefinedObject(ci) THEN Cb(m1, UnsupportedError) ELSE m1
        m3 == [Enter(m2, "isApplicable") EXCEPT !.snapshot = ci,
                                                !.compliance = LabelVerdict("NOT_APPLICABLE")]
    IN IF ~DefinedObject(ci)
       THEN Throw(m3, "Error: configurationItem is not defined")
       ELSE IF isApplicable(ci, m3.event)
            THEN LET m4 == RuleHandler([m3 EXCEPT !.applicable = "true"], ie, ci, b)
                 IN IF m4.thrown # "none" THEN m4 ELSE PutTogether(m4, ci)
       ELSE PutTogether([m3 EXCEPT !.applicable = "false"], ci)

\* Variant: an absent history record is passed on unconverted.
GetConfigurationItemCallbackUnconverted(m, ie, err, apiConfigurationItem, b) ==
    LET m1 == IF err # NoError THEN HandlerCallback(m, ie, err, Undefined, b) ELSE m
    IN IF m1.thrown # "none" THEN m1
       ELSE IF ~DefinedObject(apiConfigurationItem)
            THEN HandlerCallback(m1, ie, NoError, Undefined, b)
       ELSE HandlerCallback(Enter(m1, "convertApiConfiguration"), ie, NoError,
                            convertApiConfiguration(apiConfigurationItem), b)

\* Lines 106-112: the callback getConfigurationItem gives to getConfiguration.
GetConfigurationItemCallback(m, ie, err, apiConfigurationItem, b) ==
    LET m1 == IF err # NoError THEN HandlerCallback(m, ie, err, Undefined, b) ELSE m
    IN IF m1.thrown # "none" THEN m1
       ELSE IF ~DefinedObject(apiConfigurationItem)
            THEN Throw(Enter(m1, "convertApiConfiguration"),
                       "TypeError: Cannot read property 'accountId' of undefined")
       ELSE HandlerCallback(Enter(m1, "convertApiConfiguration"), ie, NoError,
                            convertApiConfiguration(apiConfigurationItem), b)

\* Lines 76-82: the callback getConfiguration gives to getResourceConfigHistory.
\* data is null when err is set.
GetConfigurationCallback(m, ie, err, data, b) ==
    LET m1 == IF err # NoError
              THEN GetConfigurationItemCallback(m, ie, err, Undefined, b) ELSE m
    IN IF m1.thrown # "none" THEN m1
       ELSE IF ~DefinedObject(data)
            THEN Throw(m1, "TypeError: Cannot read property 'configurationItems' of null")
       ELSE GetConfigurationItemCallback(m1, ie, NoError,
                IF Len(data.configurationItems) = 0 THEN Undefined
                ELSE data.configurationItems[1], b)

\* Variant: the embedded configurationItem is passed on without checkDefined.
GetConfigurationItemUncheckedItem(m, ie, b) ==
    IF ~DefinedString(ie.messageType) THEN Throw(m, "Error: messageType is not defined")
    ELSE IF isOverSizedChangeNotification(ie.messageType)
         THEN IF ~DefinedObject(ie.configurationItemSummary)
              THEN Throw(m, "Error: configurationItemSummary is not defined")
              ELSE [Enter(m, "getConfiguration") EXCEPT !.pc = "lookup"]
    ELSE IF isScheduledNotification(ie.messageType)
         THEN HandlerCallback(m, ie, NoError, Undefined, b)
    ELSE HandlerCallback(m, ie, NoError, ie.configurationItem, b)

\* Lines 102-119, getConfigurationItem.
GetConfigurationItem(m, ie, b) ==
    IF ~DefinedString(ie.messageType) THEN Throw(m, "Error: messageType is not defined")
    ELSE IF isOverSizedChangeNotification(ie.messageType)
         THEN IF ~DefinedObject(ie.configurationItemSummary)
              THEN Throw(m, "Error: configurationItemSummary is not defined")
              ELSE [Enter(m, "getConfiguration") EXCEPT !.pc = "lookup"]
    ELSE IF isScheduledNotification(ie.messageType)
         THEN HandlerCallback(m, ie, NoError, Undefined, b)
    ELSE IF ~DefinedObject(ie.configurationItem)
         THEN Throw(m, "Error: configurationItem is not defined")
    ELSE HandlerCallback(m, ie, NoError, ie.configurationItem, b)

----------------------------------------------------------------------------
(* Actions *)

Init ==
    /\ payload \in Events
    /\ event = payload
    /\ pc = "start"
    /\ callbacks = <<>>
    /\ thrown = "none"
    /\ trace = <<>>
    /\ evaluatorArgs = <<>>
    /\ pending = FALSE
    /\ compliance = NoVerdict
    /\ applicable = "none"
    /\ verdict = NoVerdict
    /\ lookup = NoRequest
    /\ snapshot = Undefined
    /\ requests = <<>>
    /\ response = NoRequest
    /\ diagnostics = <<>>

\* exports.lambda_handler, lines 132-136, up to the point where it waits for
\* a service or ends.
Invoke ==
    /\ pc = "start"
    /\ \E b \in Behaviours :
         Apply(GetConfigurationItem(Enter(Cur, "getConfigurationItem"),
                                    Parse(event.invokingEvent), b))
    /\ UNCHANGED <<payload, lookup, response>>

\* What getResourceConfigHistory can answer with limit 1.
HistoryAnswers ==
    {[err |-> HistoryError, data |-> Undefined]}
    \cup {[err |-> NoError, data |-> [configurationItems |-> <<>>]]}
    \cup {[err |-> NoError, data |-> [configurationItems |-> <<a>>]] : a \in ApiItems}

\* getResourceConfigHistory answers.
HistoryResponds ==
    /\ pc = "lookup"
    /\ \E a \in HistoryAnswers, b \in Behaviours :
         /\ lookup' = a
         /\ Apply(GetConfigurationCallback(Cur, Parse(payload.invokingEvent),
                                           a.err, a.data, b))
    /\ UNCHANGED <<payload, response>>

\* An Evaluator that did not call back during its call does so now
\* (lines 148-153).
EvaluatorDelivers ==
    /\ pending
    /\ \/ \E v \in Verdicts :
            Apply([Enter(Cur, "verdict delivered") EXCEPT
                     !.pending = FALSE, !.verdict = v, !.compliance = v])
       \/ Apply([Cb(Enter(Cur, "verdict delivered"), EvaluatorError) EXCEPT
                   !.pending = FALSE, !.verdict = OtherVerdict,
                   !.compliance = OtherVerdict])
    /\ UNCHANGED <<payload, lookup, response>>

\* What putEvaluations can answer to a request.
SubmitAnswers(req) ==
    {[error |-> SubmissionError, data |-> Undefined]}
    \cup {[error |-> NoError, data |-> [FailedEvaluations |-> f]] :
            f \in {q \in SeqsUpTo({req.Evaluations[i] : i \in 1..Len(req.Evaluations)}, MaxFailed) :
                     Len(q) <= Len(req.Evaluations)}}

\* Variant: the branch without failures does not call back.
PutEvaluationsCallbackSilentSuccess(m, error, data) ==
    IF error # NoError THEN Cb(m, error)
    ELSE IF Len(data.FailedEvaluations) > 0 THEN Cb(m, PartialFailure(data))
    ELSE m

\* Variant: FailedEvaluations is not looked at.
PutEvaluationsCallbackNoFailedCheck(m, error, data) ==
    IF error # NoError THEN Cb(m, error) ELSE Cb(m, Success(data))

\* Lines 196-205: the callback lambda_handler gives to config.putEvaluations.
PutEvaluationsCallback(m, error, data) ==
    IF error # NoError THEN Cb(m, error)
    ELSE IF Len(data.FailedEvaluations) > 0 THEN Cb(m, PartialFailure(data))
    ELSE Cb(m, Success(data))

\* config.putEvaluations answers.
SubmitResponds ==
    /\ pc = "submit"
    /\ \E a \in SubmitAnswers(requests[Len(requests)]) :
         /\ response' = a
         /\ Apply([PutEvaluationsCallback(Enter(Cur, "putEvaluations answered"),
                                          a.error, a.data) EXCEPT !.pc = "done"])
    /\ UNCHANGED <<payload, lookup>>

Next == Invoke \/ HistoryResponds \/ EvaluatorDelivers \/ SubmitResponds

Spec == Init /\ [][Next]_vars

\* The invocation is started, and each service (and an Evaluator that has not
\* called back yet) eventually answers.
LiveSpec ==
    /\ Spec
    /\ WF_vars(Invoke)
    /\ WF_vars(HistoryResponds)
    /\ WF_vars(EvaluatorDelivers)
    /\ WF_vars(SubmitResponds)

----------------------------------------------------------------------------
(* Properties *)

InTrace(stage) == \E i \in 1..Len(trace) : trace[i] = stage
Notification == Parse(payload.invokingEvent)
Resolved == DefinedObject(snapshot)
ApplicableStatus == snapshot.configurationItemStatus \in {"OK", "ResourceDiscovered"}
OneRecord(label) ==
    <<Candidate(snapshot.resourceType, snapshot.resourceId, label,
                snapshot.configurationItemCaptureTime)>>
SyncVerdict == verdict # NoVerdict /\ ~InTrace("verdict delivered")

\* C1: isApplicable returns true exactly when the status is OK or
\* ResourceDiscovered and eventLeftScope is exactly false; for every other
\* status or value of eventLeftScope (true, absent, a string) it returns false.
C1_IsApplicableIff ==
    applicable # "none" =>
        (applicable = "true" <=> (ApplicableStatus /\ payload.eventLeftScope = "false"))

C1_Witness ==
    /\ applicable = "false"
    /\ snapshot.configurationItemStatus = "OK"
    /\ payload.eventLeftScope = "undefined"

\* C2: when the resolved snapshot is not applicable, the Evaluator is never
\* invoked and the one request handed to putEvaluations holds exactly one
\* record: NOT_APPLICABLE with the snapshot's type, id and capture time.
C2_NotApplicableSkipsEvaluator ==
    (Resolved /\ ~(ApplicableStatus /\ payload.eventLeftScope = "false")) =>
        /\ evaluatorArgs = <<>>
        /\ ~InTrace("rule_handler")
        /\ verdict = NoVerdict
        /\ Len(requests) = 1
        /\ requests[1].Evaluations = OneRecord("NOT_APPLICABLE")

C2_Witness ==
    /\ Resolved
    /\ snapshot.configurationItemStatus = "ResourceDeleted"
    /\ payload.eventLeftScope = "false"
    /\ Len(requests) = 1
    /\ pc = "done"

\* C3: when the snapshot is applicable and the Evaluator returns a single
\* label V from its call, the one request handed to putEvaluations holds
\* exactly one record: V with the snapshot's type, id and capture time.
C3_SingleLabelRoundTrip ==
    (applicable = "true" /\ SyncVerdict /\ verdict.shape = "string") =>
        /\ verdict.value \in Labels
        /\ Len(requests) = 1
        /\ requests[1].Evaluations = OneRecord(verdict.value)

C3_Witness ==
    /\ applicable = "true"
    /\ SyncVerdict
    /\ verdict = LabelVerdict("COMPLIANT")
    /\ Len(requests) = 1
    /\ pc = "done"

\* C4: a list verdict of N well-formed and M malformed candidates is
\* normalized without an exception to exactly the N well-formed candidates in
\* their input order, with a diagnostic when there are malformed ones.
C4_ListVerdictNormalized ==
    (applicable = "true" /\ SyncVerdict /\ verdict.shape = "array") =>
        /\ thrown = "none"
        /\ Len(requests) = 1
        /\ requests[1].Evaluations = SelectSeq(verdict.items, WellFormed)
        /\ (diagnostics # <<>>) <=>
              (\E i \in 1..Len(verdict.items) : ~WellFormed(verdict.items[i]))

\* C5: no record that lacks one of the four required fields is in a request
\* handed to putEvaluations.
C5_NoMalformedRecordSubmitted ==
    \A r \in 1..Len(requests) :
        \A i \in 1..Len(requests[r].Evaluations) :
            WellFormed(requests[r].Evaluations[i])

C5_Witness ==
    /\ SyncVerdict
    /\ verdict.shape = "array"
    /\ \E i \in 1..Len(verdict.items) : ~WellFormed(verdict.items[i])
    /\ pc = "done"

\* C6: when putEvaluations answers without an error and lists per-record
\* failures, the caller is told a failure that carries the answer, and is
\* never told success.
C6_PartialFailureReported ==
    (response # NoRequest /\ response.error = NoError
       /\ Len(response.data.FailedEvaluations) > 0) =>
        /\ \E i \in 1..Len(callbacks) : callbacks[i] = PartialFailure(response.data)
        /\ \A i \in 1..Len(callbacks) : callbacks[i].kind = "error"

C6_Witness ==
    /\ response # NoRequest
    /\ response.error = NoError
    /\ Len(response.data.FailedEvaluations) = 1
    /\ callbacks = <<PartialFailure(response.data)>>

\* C7: for a ScheduledNotification the caller is told the unsupported-
\* notification error, and neither the Evaluator nor putEvaluations is called.
C7_ScheduledUnsupported ==
    (Notification.messageType = ScheduledNotification /\ pc # "start") =>
        /\ callbacks = <<UnsupportedError>>
        /\ evaluatorArgs = <<>>
        /\ ~InTrace("rule_handler")
        /\ requests = <<>>
        /\ ~InTrace("putEvaluations")

C7_Witness ==
    /\ Notification.messageType = ScheduledNotification
    /\ pc = "done"
    /\ callbacks = <<UnsupportedError>>

\* C8: when the history call of an oversized notification answers with an
\* error, the caller receives that error and nothing else, and no later stage
\* runs: no remapping, no applicability check, no Evaluator, no submission.
C8_LookupErrorStopsPipeline ==
    (lookup # NoRequest /\ lookup.err # NoError) =>
        /\ callbacks = <<lookup.err>>
        /\ ~InTrace("convertApiConfiguration")
        /\ ~InTrace("isApplicable")
        /\ ~InTrace("rule_handler")
        /\ requests = <<>>

\* C9: when the history call of an oversized notification answers with an
\* empty list, the resolver fails (an exception raised while remapping the
\* absent record, before any later stage) and putEvaluations is not called.
C9_EmptyHistoryFails ==
    (lookup # NoRequest /\ lookup.err = NoError
       /\ lookup.data.configurationItems = <<>>) =>
        /\ thrown # "none"
        /\ trace[Len(trace)] = "convertApiConfiguration"
        /\ ~Resolved
        /\ callbacks = <<>>
        /\ requests = <<>>
        /\ pc = "done"

C9_Witness ==
    /\ lookup # NoRequest
    /\ lookup.err = NoError
    /\ lookup.data.configurationItems = <<>>
    /\ thrown = "TypeError: Cannot read property 'accountId' of undefined"

\* C10: when the Evaluator raises or reports an error during its call, the
\* caller receives that error and nothing is normalized or submitted
\* afterwards.
C10_EvaluatorErrorStopsPipeline ==
    (applicable = "true" /\ ~InTrace("verdict delivered")
       /\ (thrown = "exception of the Evaluator"
            \/ \E i \in 1..Len(callbacks) : callbacks[i] = EvaluatorError)) =>
        /\ ~InTrace("normalize")
        /\ requests = <<>>

\* The failure the submitter is to report for a batch without records.
EmptyBatchError == [kind |-> "error", name |-> "empty batch", detail |-> Undefined]

\* C11: when normalization yields no valid record (an empty list verdict, or
\* a list verdict of malformed candidates only), the invocation fails with the
\* empty-batch error and putEvaluations is never called.
C11_EmptyBatchFails ==
    (applicable = "true" /\ SyncVerdict /\ verdict.shape = "array"
       /\ SelectSeq(verdict.items, WellFormed) = <<>>) =>
        /\ callbacks = <<EmptyBatchError>>
        /\ thrown = "none"
        /\ requests = <<>>

\* C12: a notification without messageType, an oversized notification without
\* configurationItemSummary, and a change notification without
\* configurationItem each make the resolver fail with an error naming the
\* absent field; the Evaluator is not invoked and putEvaluations is not called.
MissingField ==
    IF ~DefinedString(Notification.messageType) THEN "messageType"
    ELSE IF Notification.messageType = OversizedNotification
         THEN IF DefinedObject(Notification.configurationItemSummary)
              THEN "none" ELSE "configurationItemSummary"
    ELSE IF Notification.messageType = ChangeNotification
         THEN IF DefinedObject(Notification.configurationItem)
              THEN "none" ELSE "configurationItem"
    ELSE "none"

C12_MissingFieldFailsFast ==
    (MissingField # "none" /\ pc # "start") =>
        /\ \/ MissingField = "messageType"
              /\ thrown = "Error: messageType is not defined"
           \/ MissingField = "configurationItemSummary"
              /\ thrown = "Error: configurationItemSummary is not defined"
           \/ MissingField = "configurationItem"
              /\ thrown = "Error: configurationItem is not defined"
        /\ trace = <<"getConfigurationItem">>
        /\ callbacks = <<>>
        /\ ~Resolved
        /\ evaluatorArgs = <<>>
        /\ requests = <<>>
        /\ pc = "done"

C12_Witness ==
    /\ MissingField = "configurationItem"
    /\ thrown = "Error: configurationItem is not defined"
    /\ pc = "done"

\* C13: putEvaluations is called at most once in an invocation, and the
\* ResultToken of the request is the resultToken of the inbound payload.
C13_TokenThreadedOnce ==
    /\ Len(requests) <= 1
    /\ \A r \in 1..Len(requests) : requests[r].ResultToken = payload.resultToken

C13_Witness ==
    /\ Len(requests) = 1
    /\ requests[1].ResultToken = "token-B"
    /\ event # payload
    /\ pc = "done"

\* The fields every snapshot carries under their canonical names.
CanonicalFields ==
    {"resourceType", "resourceId", "configurationItemStatus",
     "configurationItemCaptureTime", "configuration", "awsAccountId", "ARN",
     "configurationStateMd5Hash", "configurationItemVersion"}

Populated(ci) ==
    /\ CanonicalFields \subseteq DOMAIN ci
    /\ \A f \in CanonicalFields \ {"configurationItemCaptureTime", "configuration"} :
          DefinedString(ci[f])
    /\ ci.configurationItemCaptureTime \in {StringTime, DateTime}
    /\ ci.configuration \in [instanceType : InstanceTypes]
    /\ "relationships" \in DOMAIN ci =>
          \A i \in 1..Len(ci.relationships) : DefinedString(ci.relationships[i].name)

\* C14: for each message type, resolution hands on a snapshot with every
\* canonical field populated (on the oversized path: account id, ARN, MD5 hash
\* and version copied from the history record, its configuration parsed, each
\* relationship named by its relationshipName), or it hands on no snapshot
\* and the invocation fails; a partly populated snapshot is never handed on.
C14_SnapshotCompleteOrAbsent ==
    pc \notin {"start", "lookup"} =>
        IF Resolved
        THEN /\ Populated(snapshot)
             /\ Notification.messageType = ChangeNotification =>
                   snapshot = Notification.configurationItem
             /\ Notification.messageType = OversizedNotification =>
                   LET a == lookup.data.configurationItems[1]
                   IN /\ \A f \in DOMAIN a \ {"configuration", "relationships"} :
                            snapshot[f] = a[f]
                      /\ snapshot.awsAccountId = a.accountId
                      /\ snapshot.ARN = a.arn
                      /\ snapshot.configurationStateMd5Hash = a.configurationItemMD5Hash
                      /\ snapshot.configurationItemVersion = a.version
                      /\ snapshot.configuration = Parse(a.configuration)
                      /\ ("relationships" \in DOMAIN snapshot) = ("relationships" \in DOMAIN a)
                      /\ "relationships" \in DOMAIN a =>
                            /\ Len(snapshot.relationships) = Len(a.relationships)
                            /\ \A i \in 1..Len(a.relationships) :
                                  /\ snapshot.relationships[i].name = a.relationships[i].relationshipName
                                  /\ snapshot.relationships[i].relationshipName = a.relationships[i].relationshipName
             /\ Notification.messageType \in {ChangeNotification, OversizedNotification}
        ELSE /\ thrown # "none"
             /\ evaluatorArgs = <<>>
             /\ requests = <<>>
             /\ \A i \in 1..Len(callbacks) : callbacks[i].kind = "error"

C14_Witness ==
    /\ Resolved
    /\ Notification.messageType = OversizedNotification
    /\ "relationships" \in DOMAIN snapshot
    /\ snapshot.relationships[1].name = "in vpc"
    /\ snapshot.ARN = "arn:i-1"

\* C15: when the applicable path produces a verdict that is neither a label
\* nor a list, the request holds exactly one record: NOT_APPLICABLE with the
\* snapshot's type, id and capture time.
C15_UnrecognizedVerdict ==
    (applicable = "true" /\ SyncVerdict /\ verdict.shape = "other") =>
        /\ Len(requests) = 1
        /\ requests[1].Evaluations = OneRecord("NOT_APPLICABLE")

C15_Witness ==
    /\ applicable = "true"
    /\ SyncVerdict
    /\ verdict = OtherVerdict
    /\ callbacks = <<>>
    /\ Len(requests) = 1
    /\ requests[1].Evaluations = OneRecord("NOT_APPLICABLE")

Position(stage) == CHOOSE i \in 1..Len(trace) : trace[i] = stage
Before(s1, s2) == (InTrace(s1) /\ InTrace(s2)) => Position(s1) < Position(s2)

\* C16: the stages run in order (resolution, applicability, Evaluator,
\* normalization, submission), and normalization does not begin before the
\* Evaluator has delivered its verdict: a label delivered after the
\* Evaluator's call has returned is the label of the submitted record.
C16_StagesInOrder ==
    /\ Before("getConfigurationItem", "isApplicable")
    /\ Before("convertApiConfiguration", "isApplicable")
    /\ Before("isApplicable", "rule_handler")
    /\ Before("rule_handler", "normalize")
    /\ Before("normalize", "putEvaluations")
    /\ pending => ~InTrace("normalize")
    /\ Before("verdict delivered", "normalize")
    /\ (InTrace("verdict delivered") /\ verdict.shape = "string") =>
          /\ Len(requests) = 1
          /\ requests[1].Evaluations = OneRecord(verdict.value)

\* Equality of two configuration items as values: a capture time is compared
\* as an instant, whether it is held as a Date or as its string.
SameItem(x, y) ==
    /\ DOMAIN x = DOMAIN y
    /\ \A f \in DOMAIN x :
          IF f = "configurationItemCaptureTime" THEN x[f].t = y[f].t ELSE x[f] = y[f]

\* C17: on the applicable path the Evaluator is called once, with the resolved
\* snapshot (every field with the value the snapshot has, the capture time the
\* same instant) and the rule parameters of the payload; for an oversized
\* notification that snapshot is the remapped history record, not the summary
\* and not an absent embedded item.
C17_EvaluatorSeesSnapshot ==
    /\ Len(evaluatorArgs) <= 1
    /\ applicable = "true" => Len(evaluatorArgs) = 1
    /\ \A i \in 1..Len(evaluatorArgs) :
          /\ applicable = "true"
          /\ DefinedObject(evaluatorArgs[i].configurationItem)
          /\ SameItem(evaluatorArgs[i].configurationItem, snapshot)
          /\ evaluatorArgs[i].ruleParameters = Parse(payload.ruleParameters)
          /\ Notification.messageType = OversizedNotification =>
                /\ evaluatorArgs[i].configurationItem # Summary
                /\ evaluatorArgs[i].configurationItem.awsAccountId
                      = lookup.data.configurationItems[1].accountId
                /\ evaluatorArgs[i].configurationItem.configuration
                      = Parse(lookup.data.configurationItems[1].configuration)

C17_Witness ==
    /\ Notification.messageType = OversizedNotification
    /\ Len(evaluatorArgs) = 1
    /\ evaluatorArgs[1].configurationItem.ARN = "arn:i-1"
    /\ evaluatorArgs[1].configurationItem.configuration.instanceType = "m4.large"
    /\ verdict = LabelVerdict("NON_COMPLIANT")

\* An outcome has reached the caller: its callback has been called, or an
\* uncaught exception has ended the invocation.
OutcomeDelivered == callbacks # <<>> \/ thrown # "none"

\* C18: when every external call eventually answers, every invocation
\* eventually delivers an outcome (success or a failure) to the caller,
\* whatever the notification and whatever the verdict, a list included.
C18_OutcomeEventuallyDelivered == <>OutcomeDelivered

C18_Witness ==
    /\ lookup # NoRequest
    /\ pc = "done"
    /\ Len(callbacks) = 1
    /\ callbacks[1].kind = "success"

\* C19: the caller's callback is called at most once in an invocation, and
\* once it has been called no stage of the pipeline is still to run.
C19_CallbackAtMostOnce ==
    /\ Len(callbacks) <= 1
    /\ callbacks # <<>> => (pc = "done" /\ ~pending)

====
